---- MODULE Spec2Model ----
(***************************************************************************)
(* botdetect: a per-IP request aggregator (IPHistory / History), the TTL   *)
(* blacklist it feeds (Blacklist) and the line loop of cmd/botdetect.      *)
(*                                                                         *)
(* Time is a discrete wall clock `now`, counted in ticks from the start of *)
(* the program.  Durations (ttl, intervals, window, time slot) are whole   *)
(* numbers of ticks.  Code between two blocking points takes no time: the  *)
(* clock advances only while every task is idle or waiting on its timer.   *)
(* Every critical section that holds one lock and calls nothing that locks *)
(* is one atomic action; the steps of one call interleave with the steps   *)
(* of every other task.                                                    *)
(***************************************************************************)
EXTENDS Integers, Sequences, FiniteSets, TLC

(***************************************************************************)
(* Bounds of the model and configuration values.                           *)
(***************************************************************************)
\* last instant of the wall clock
MaxTime == 5
\* Blacklist.ttl (NewBlacklist's ttl argument), in ticks
BlacklistTTL == 2
\* Blacklist.expireInterval (NewBlacklist's expireInterval argument), in ticks
ExpireInterval == 2
\* most expiry records plus Set calls in flight
MaxExpiry == 3

\* the addresses requests and Set calls are about, as ip.To16().String() keys
IPs == {"203.0.113.5", "203.0.113.9"}
\* goroutines that call the exported Blacklist.Set concurrently
Clients == {"c1", "c2"}
\* IPHistory.calculate as a caller of Blacklist.Set
CalcCaller == "calculate"
SetCallers == Clients \cup {CalcCaller}
NoIP == "<nil>"
Never == 0 - 1

\* IPHistoryOptions.TimeSlot, in ticks
TimeSlot == 2
\* IPHistoryOptions.Window, in ticks
Window == 3
\* IPHistoryOptions.Interval, in ticks
Interval == 1
\* the zero time.Time of an IPHistory whose clock has not run yet
ZeroTime == 0 - (Window + 1)
\* IPHistoryOptions.MaxRequests
MaxRequests == 1
\* IPHistoryOptions.MaxRatio as a fraction: the -max-ratio default, 0.85
MaxRatioNum == 85
MaxRatioDen == 100
\* most requests sent on the request channel
MaxReqs == 3

\* request paths, one character per element
PathHtml == <<"/", "a", ".", "h", "t", "m", "l">>
PathCss == <<"/", "a", ".", "c", "s", "s">>
PathJson == <<"/", "a", ".", "j", "s", "o", "n">>
URLs == {PathHtml, PathCss, PathJson}
EmptyMap == [ip \in {} |-> <<>>]
NoReq == [IP |-> NoIP, URL |-> <<>>]
NoIng == [app |-> 0, other |-> 0, same |-> TRUE]
NoEval == [ip |-> NoIP, total |-> 0, app |-> 0, set |-> FALSE]

\* cmd/botdetect: the verdict tokens (main.go lines 45-46)
ok == "OK"
block == "BLOCK"
\* the lines standard input can deliver, as sequences of characters
LinePublic == <<"8", ".", "8", ".", "8", ".", "8", "|", "|", "/">>
LineMixed == <<"1", "0", ".", "0", ".", "0", ".", "1", "|",
               "9", ".", "9", ".", "9", ".", "9", ",", " ", "x", "|", "/">>
LineNoPipe == <<"j", "u", "n", "k">>
LineXff == <<"x", "|", "1", "2", "7", ".", "0", ".", "0", ".", "1", ",",
             "8", ".", "8", ".", "8", ".", "8", "|", "/">>
InputLines == {LinePublic, LineMixed, LineNoPipe, LineXff}
\* number of lines read from standard input in a run of the model
MaxLines == 3
\* a nil net.IP
NilIP == <<>>

VARIABLES
    now,          \* time.Now()
    bl_data,      \* Blacklist.data: the membership map's keys
    bl_expiry,    \* Blacklist.expiry: list of blacklistIP, head first
    setPc,        \* per caller: position inside Blacklist.Set
    setIP,        \* per caller: ipstr of the Set call in progress
    expPc,        \* position of Blacklist.expireLoop / expire
    expNow,       \* expire's local `now`
    expItem,      \* expire's local `blip`
    expTimer,     \* instant at which expireLoop's time.After fires
    lastAnswer,   \* the last IsBlacklisted call: <<ip, result, an expiry record of ip was due>>
    insAt,        \* history: instant of the Put that last made ip present
    setReturned,  \* history: <<ip, instant>> of the last Set call that returned at line 56
    currentSlot,  \* IPHistory.currentSlot
    h_data,       \* IPHistory.data: ipstr -> list of IPHistoryItem, front first
    updatedIPs,   \* IPHistory.updatedIPs: the keys set to true
    mutex,        \* holder of IPHistory.mutex across steps, or "none"
    procReq,      \* process: the request taken from reqChan, or NoReq
    calcPc,       \* position of IPHistory.calculate
    calcCutoff,   \* calculate's local `cutoff`
    calcUpdated,  \* calculate's local `updated`: the keys not yet ranged over
    hExpCutoff,   \* IPHistory.expire's local `cutoff`
    clockTimer,   \* instant at which setTimestamp next writes the slot
    calcTimer,    \* instant at which calculate's time.After fires
    hExpTimer,    \* instant at which IPHistory.expire's time.After fires
    nReq,         \* history: number of requests sent on reqChan
    ing,          \* history: per ip, requests counted since its series began
    lastEval,     \* history: what calculate's last loop body computed
    calcCovers,   \* history: ips with no request counted since the pass began
    tickState,    \* history: per ip, "pending" | "ticked" | "stale"
    ignorePrivateIPs, \* cmd/botdetect: the -ignore-private-ips flag
    mainPc,       \* position of main's line loop
    ips,          \* main's local `ips`
    mainIdx,      \* main's loop index `i` over ips
    decision,     \* main's local `decision`
    stdin,        \* history: the lines read from standard input
    stdout,       \* the lines written to standard output
    queries,      \* history: per line read, the <<ip, in blacklist>> of each query
    hist_data,    \* History.data
    hist_blacklist, \* History.blacklist: the keys of the map it points to
    sent,         \* history: the Requests sent on History.reqChan
    dataAtScan,   \* history: History.data when the current line was read
    histCalcTimer, \* instant at which History.calculate's time.After fires
    panicked,     \* the process died of a runtime panic
    hist_currentSlot, \* History.currentSlot
    histClockTimer, \* instant at which History.setTimestamp next writes the slot
    histListed,   \* history: the ips that met the block rule in History's last pass
    ctxDone,      \* the context given to the constructors is cancelled
    returned,     \* the background tasks that have returned
    lpc,          \* per goroutine: the line of the source it is at
    writer,       \* per sync.RWMutex: the goroutine inside Lock..Unlock, or "none"
    readers,      \* per sync.RWMutex: the goroutines inside RLock..RUnlock
    asking        \* per sync.RWMutex: the goroutine whose Lock waits for the readers to leave, or "none"

blVars == <<bl_data, bl_expiry, setPc, setIP, expPc, expNow, expItem, expTimer,
            lastAnswer, insAt, setReturned>>
timers == <<clockTimer, calcTimer, hExpTimer>>
hVars == <<currentSlot, h_data, updatedIPs, mutex, procReq, calcPc, calcCutoff,
           calcUpdated, hExpCutoff, timers, nReq, ing, lastEval, calcCovers>>
mainVars == <<ignorePrivateIPs, mainPc, ips, mainIdx, decision, stdin, stdout,
             queries, hist_data, hist_blacklist, sent, dataAtScan,
             histCalcTimer, panicked, hist_currentSlot, histClockTimer,
             histListed, ctxDone, returned>>
lockVars == <<lpc, writer, readers, asking>>
vars == <<now, blVars, hVars, tickState, mainVars, lockVars>>

(***************************************************************************)
(* Blacklist (src/unnamed/part_002)                                        *)
(***************************************************************************)
blacklistIP(ip, expires) == [IP |-> ip, Expires |-> expires]

\* a lookup that never finds the key
SetFoundNever(ip) == FALSE

\* Set, line 53: _, ok := bl.data.Get(ipstr)
SetFound(ip) == ip \in bl_data

\* Set, line 66: time.Now().Add(bl.ttl)
SetExpires == now + BlacklistTTL

\* a test that finds no record expired
ExpiredNever(blip, t) == FALSE

\* expire, line 110: blip.Expires.Before(now)
Expired(blip, t) == blip.Expires < t

\* a membership test that also looks at the expiry of the entry
IsBlacklistedUnexpired(ip) ==
    /\ ip \in bl_data
    /\ \A i \in 1..Len(bl_expiry) :
          bl_expiry[i].IP = ip => ~Expired(bl_expiry[i], now + 1)

\* IsBlacklisted, lines 78-84
IsBlacklisted(ip) == ip \in bl_data

\* the expiry list holds a record of ip whose Expires is not after now
DueRecord(ip) ==
    \E i \in 1..Len(bl_expiry) :
        bl_expiry[i].IP = ip /\ bl_expiry[i].Expires <= now

\* number of expiry records of ip
RECURSIVE CountIP(_, _)
CountIP(list, ip) ==
    IF list = <<>> THEN 0
    ELSE (IF Head(list).IP = ip THEN 1 ELSE 0) + CountIP(Tail(list), ip)

InFlight == Cardinality({c \in SetCallers : setPc[c] # "idle"})

\* a goroutine calls bl.Set(ip): line 50
SetCall(c, ip) ==
    /\ setPc[c] = "idle"
    /\ Len(bl_expiry) + InFlight < MaxExpiry
    /\ setPc' = [setPc EXCEPT ![c] = "check"]
    /\ setIP' = [setIP EXCEPT ![c] = ip]
    /\ UNCHANGED <<now, bl_data, bl_expiry, expPc, expNow, expItem, expTimer,
                   lastAnswer, insAt, setReturned,
                   hVars, tickState>>
    /\ UNCHANGED <<mainVars, lockVars>>

\* lines 52-57: the read-locked lookup and the early return
SetCheck(c) ==
    /\ setPc[c] = "check"
    /\ IF SetFound(setIP[c])
       THEN /\ setPc' = [setPc EXCEPT ![c] = "idle"]
            /\ setIP' = [setIP EXCEPT ![c] = NoIP]
            /\ setReturned' = <<setIP[c], now>>
       ELSE /\ setPc' = [setPc EXCEPT ![c] = "put"]
            /\ UNCHANGED <<setIP, setReturned>>
    /\ UNCHANGED <<now, bl_data, bl_expiry, expPc, expNow, expItem,
                   expTimer, lastAnswer, insAt,
                   hVars, tickState>>
    /\ UNCHANGED <<mainVars, lockVars>>

\* lines 59-61: bl.data.Put(ipstr, true) under dataMutex
SetPut(c) ==
    /\ setPc[c] = "put"
    /\ bl_data' = bl_data \cup {setIP[c]}
    /\ insAt' = IF setIP[c] \in bl_data THEN insAt
                ELSE [insAt EXCEPT ![setIP[c]] = now]
    /\ setPc' = [setPc EXCEPT ![c] = "add"]
    /\ UNCHANGED <<now, bl_expiry, setIP, expPc, expNow, expItem, expTimer,
                   lastAnswer, setReturned,
                   hVars, tickState>>
    /\ UNCHANGED <<mainVars, lockVars>>

\* lines 63-68: bl.expiry.Add(blacklistIP{...}) under expiryMutex
SetAdd(c) ==
    /\ setPc[c] = "add"
    /\ bl_expiry' = Append(bl_expiry, blacklistIP(setIP[c], SetExpires))
    /\ setPc' = [setPc EXCEPT ![c] = "idle"]
    /\ setIP' = [setIP EXCEPT ![c] = NoIP]
    /\ UNCHANGED <<now, bl_data, expPc, expNow, expItem, expTimer,
                   lastAnswer, insAt, setReturned,
                   hVars, tickState>>
    /\ UNCHANGED <<mainVars, lockVars>>

\* a goroutine calls bl.IsBlacklisted(ip): lines 78-84
IsBlacklistedCall(ip) ==
    /\ lastAnswer' = <<ip, IsBlacklisted(ip), DueRecord(ip)>>
    /\ lastAnswer' # lastAnswer
    /\ UNCHANGED <<now, bl_data, bl_expiry, setPc, setIP, expPc, expNow,
                   expItem, expTimer, insAt, setReturned,
                   hVars, tickState>>
    /\ UNCHANGED <<mainVars, lockVars>>

\* expire, lines 101-110 and 120-122, with t the local `now`: look at the
\* head; stop at an empty list or at a head that has not expired, and wait
\* for the next interval (line 91)
ExpireLook(t) ==
    /\ IF bl_expiry # <<>> /\ Expired(Head(bl_expiry), t)
       THEN /\ expItem' = Head(bl_expiry)
            /\ expPc' = "remove_expiry"
            /\ expNow' = t
            /\ UNCHANGED expTimer
       ELSE /\ expPc' = "wait"
            /\ expTimer' = now + ExpireInterval
            /\ expNow' = 0
            /\ UNCHANGED expItem
    /\ UNCHANGED <<now, bl_data, bl_expiry, setPc, setIP, lastAnswer,
                   insAt, setReturned, hVars, tickState>>
    /\ UNCHANGED <<mainVars, lockVars>>

\* expireLoop, line 91 fires; expire, line 98: now := time.Now(), and the
\* first look at the head
ExpireLoopFire ==
    /\ expPc = "wait"
    /\ now >= expTimer
    /\ ExpireLook(now)

\* expire, line 100: the next iteration
ExpireGet ==
    /\ expPc = "get"
    /\ ExpireLook(expNow)

\* expire, lines 112-114: bl.expiry.Remove(0)
ExpireRemoveExpiry ==
    /\ expPc = "remove_expiry"
    /\ bl_expiry' = IF bl_expiry = <<>> THEN bl_expiry ELSE Tail(bl_expiry)
    /\ expPc' = "remove_data"
    /\ UNCHANGED <<now, bl_data, setPc, setIP, expNow, expItem, expTimer,
                   lastAnswer, insAt, setReturned,
                   hVars, tickState>>
    /\ UNCHANGED <<mainVars, lockVars>>

\* expire, lines 117-119: bl.data.Remove(blip.IP)
ExpireRemoveData ==
    /\ expPc = "remove_data"
    /\ bl_data' = bl_data \ {expItem.IP}
    /\ expItem' = blacklistIP(NoIP, 0)
    /\ expPc' = "get"
    /\ tickState' = [ip \in IPs |->
            IF ip = expItem.IP /\ tickState[ip] = "ticked" THEN "stale"
            ELSE tickState[ip]]
    /\ UNCHANGED <<now, bl_expiry, setPc, setIP, expNow, expTimer,
                   lastAnswer, insAt, setReturned,
                   hVars>>
    /\ UNCHANGED <<mainVars, lockVars>>

BlacklistIdle ==
    /\ \A c \in SetCallers : setPc[c] = "idle"
    /\ expPc = "wait"
    /\ now < expTimer

\* the wall clock advances while every task of the Blacklist waits
TickBL ==
    /\ now < MaxTime
    /\ BlacklistIdle
    /\ now' = now + 1
    /\ UNCHANGED <<blVars, hVars, tickState>>
    /\ UNCHANGED <<mainVars, lockVars>>

InitBL ==
    /\ bl_data = {}
    /\ bl_expiry = <<>>
    /\ setPc = [c \in SetCallers |-> "idle"]
    /\ setIP = [c \in SetCallers |-> NoIP]
    /\ expPc = "wait"
    /\ expNow = 0
    /\ expItem = blacklistIP(NoIP, 0)
    /\ expTimer = ExpireInterval
    /\ lastAnswer = <<NoIP, FALSE, FALSE>>
    /\ insAt = [ip \in IPs |-> Never]
    /\ setReturned = <<NoIP, 0>>

InitH ==
    /\ currentSlot = ZeroTime
    /\ h_data = EmptyMap
    /\ updatedIPs = {}
    /\ mutex = "none"
    /\ procReq = NoReq
    /\ calcPc = "wait"
    /\ calcCutoff = 0
    /\ calcUpdated = {}
    /\ hExpCutoff = 0 - Window
    /\ clockTimer = 0
    /\ calcTimer = Interval
    /\ hExpTimer = ExpireInterval
    /\ nReq = 0
    /\ ing = [ip \in IPs |-> NoIng]
    /\ lastEval = NoEval
    /\ calcCovers = {}
    /\ tickState = [ip \in IPs |-> "stale"]

\* main.go lines 57-74: NewHistory, NewIP, the scanner
InitMain ==
    /\ mainPc = "scan"
    /\ ips = <<>>
    /\ mainIdx = 0
    /\ decision = ok
    /\ stdin = <<>>
    /\ stdout = <<>>
    /\ queries = <<>>
    /\ hist_data = EmptyMap
    /\ hist_blacklist = {}
    /\ sent = <<>>
    /\ dataAtScan = EmptyMap
    /\ histCalcTimer = Interval
    /\ panicked = FALSE
    /\ hist_currentSlot = ZeroTime
    /\ histClockTimer = 0
    /\ histListed = {}
    /\ ctxDone = FALSE
    /\ returned = {}

\* the foreground goroutines that call IPHistory.IsBlacklisted
Callers == {"caller1", "caller2"}
\* the goroutines of NewIPHistory (history.go lines 89-92) and of NewBlacklist
\* (part_002 line 43)
Goroutines == {"setTimestamp", "process", "calculate", "expire", "expireLoop"}
\* IPHistory's locks (history.go lines 82-85)
AggregatorLocks == {"mutex", "blmutex", "tsmutex", "updatedIPsMutex"}
\* the Blacklist's locks (part_002 lines 39-40)
BlacklistLocks == {"dataMutex", "expiryMutex"}
Locks == AggregatorLocks \cup BlacklistLocks

\* every goroutine at the top of its function, every lock free
InitLocks ==
    /\ lpc = [t \in Goroutines \cup Callers |->
                CASE t = "setTimestamp" -> "l103"
                  [] t = "process" -> "l169"
                  [] t = "calculate" -> "l244"
                  [] t = "expire" -> "l214"
                  [] t = "expireLoop" -> "l91"
                  [] OTHER -> "idle"]
    /\ writer = [l \in Locks |-> "none"]
    /\ readers = [l \in Locks |-> {}]
    /\ asking = [l \in Locks |-> "none"]

Init ==
    /\ now = 0
    /\ InitBL
    /\ InitH
    /\ InitMain
    /\ InitLocks
    /\ ignorePrivateIPs = TRUE

\* the program started with either value of -ignore-private-ips (main.go
\* lines 21 and 57)
InitFlags ==
    /\ now = 0
    /\ InitBL
    /\ InitH
    /\ InitMain
    /\ InitLocks
    /\ ignorePrivateIPs \in BOOLEAN

(***************************************************************************)
(* The Blacklist used as a library: concurrent callers of Set and          *)
(* IsBlacklisted beside the background sweep.                              *)
(***************************************************************************)
NextBL ==
    \/ \E c \in Clients, ip \in IPs : SetCall(c, ip)
    \/ \E c \in Clients : SetCheck(c)
    \/ \E c \in Clients : SetPut(c)
    \/ \E c \in Clients : SetAdd(c)
    \/ \E ip \in IPs : IsBlacklistedCall(ip)
    \/ ExpireLoopFire
    \/ ExpireGet
    \/ ExpireRemoveExpiry
    \/ ExpireRemoveData
    \/ TickBL

SpecBL == Init /\ [][NextBL]_vars

(***************************************************************************)
(* IPHistory (src/history.go, lines 1-297)                                 *)
(*                                                                         *)
(* A net.IP is carried as its key ip.To16().String(); the 4-byte and the   *)
(* 16-byte form of an address give the same key.  The timers of            *)
(* setTimestamp, calculate and expire may fire at any instant.  Counters   *)
(* are uint64 in the code and stay far below 2^53 here, so the float64     *)
(* conversions of line 289 are exact.                                      *)
(***************************************************************************)
\* line 86: regexp.MustCompile(`\.(jpg|png|css|js|gif|ico)`)
assetRegexp ==
    {<<"j", "p", "g">>, <<"p", "n", "g">>, <<"c", "s", "s">>, <<"j", "s">>,
     <<"g", "i", "f">>, <<"i", "c", "o">>}

\* line 197: h.assetRegexp.MatchString(req.URL), an unanchored search
MatchString(url) ==
    \E i \in 1..Len(url) :
        /\ url[i] = "."
        /\ \E ext \in assetRegexp :
              /\ i + Len(ext) <= Len(url)
              /\ SubSeq(url, i + 1, i + Len(ext)) = ext

\* lines 104, 114: time.Now().Truncate(slot)
Truncate(t, slot) == t - (t % slot)

\* lines 186-191
IPHistoryItem(ts) == [Timestamp |-> ts, Count |-> 0, App |-> 0, Other |-> 0]

\* a push whatever the front item is
PushFrontAlways(list, slot) == <<IPHistoryItem(slot)>> \o list

\* lines 184-193: a new front item unless the front item is of the current slot
PushFront(list, slot) ==
    IF list = <<>> \/ Head(list).Timestamp # slot
    THEN <<IPHistoryItem(slot)>> \o list
    ELSE list

\* a count that leaves the class counters alone
CountOnlyTotal(hi, url) == [hi EXCEPT !.Count = @ + 1]

\* a count that takes every request for an application request
CountAsApp(hi, url) == [hi EXCEPT !.Count = @ + 1, !.App = @ + 1]

\* lines 195-201
CountRequest(hi, url) ==
    IF MatchString(url)
    THEN [hi EXCEPT !.Count = @ + 1, !.Other = @ + 1]
    ELSE [hi EXCEPT !.Count = @ + 1, !.App = @ + 1]

\* lines 180-201: the list of an IP after one request
Ingest(list, slot, url) ==
    LET pushed == PushFront(list, slot)
    IN  <<CountRequest(Head(pushed), url)>> \o Tail(pushed)

\* lines 220, 266: back.Value.(*IPHistoryItem).Timestamp.After(cutoff)
After(ts, cutoff) == ts > cutoff

\* a trim that removes nothing
KeepAll(list, cutoff) == list

\* lines 219-227 and 265-273: remove from the back up to the first item that
\* is after the cutoff
RECURSIVE ExpireOld(_, _)
ExpireOld(list, cutoff) ==
    IF list = <<>> THEN <<>>
    ELSE IF After(list[Len(list)].Timestamp, cutoff) THEN list
    ELSE ExpireOld(SubSeq(list, 1, Len(list) - 1), cutoff)

\* lines 281-286: <<total, app>>, summed from the front
RECURSIVE Totals(_)
Totals(list) ==
    IF list = <<>> THEN <<0, 0>>
    ELSE LET rest == Totals(Tail(list))
         IN  <<Head(list).Count + rest[1], Head(list).App + rest[2]>>

\* the share of application requests, app/total, against the threshold
RatioAboveInverted(total, app, num, den) ==
    IF total = 0 THEN FALSE
    ELSE app * den > num * total

\* line 289: float64(total)/float64(app) > h.options.MaxRatio; x/0 is +Inf
\* for x > 0 and NaN for x = 0, and NaN compares false
RatioAboveOf(total, app, num, den) ==
    IF app = 0 THEN total > 0
    ELSE total * den > num * app
RatioAbove(total, app) == RatioAboveOf(total, app, MaxRatioNum, MaxRatioDen)

\* the rule with app >= MaxRequests in place of app > MaxRequests
BlacklistableAtLeast(total, app) == app >= MaxRequests /\ RatioAbove(total, app)

\* the ratio test alone
BlockRuleRatioOnly(total, app, maxReq, num, den) ==
    RatioAboveOf(total, app, num, den)

\* line 289, for MaxRequests = maxReq and MaxRatio = num/den; && does not
\* evaluate the division when the first test fails
BlockRule(total, app, maxReq, num, den) ==
    app > maxReq /\ RatioAboveOf(total, app, num, den)

\* line 289
Blacklistable(total, app) ==
    BlockRule(total, app, MaxRequests, MaxRatioNum, MaxRatioDen)

MapRemove(m, k) == [x \in DOMAIN m \ {k} |-> m[x]]
MapPut(m, k, v) == [x \in DOMAIN m \cup {k} |-> IF x = k THEN v ELSE m[x]]
Lookup(m, k) == IF k \in DOMAIN m THEN m[k] ELSE <<>>

\* history: ing after ip's list went from `old` to `kept` by trimming
IngAfterTrim(i, old, kept) ==
    IF kept = <<>> THEN NoIng
    ELSE IF kept # old THEN [i EXCEPT !.same = FALSE]
    ELSE i

\* lines 102-117: h.currentSlot = time.Now().Truncate(slot), at start and
\* then TimeSlot after each write (line 112)
setTimestamp ==
    /\ now >= clockTimer
    /\ currentSlot' = Truncate(now, TimeSlot)
    /\ clockTimer' = now + TimeSlot
    /\ ing' = [ip \in IPs |->
                  IF ing[ip].app + ing[ip].other > 0 /\ currentSlot' # currentSlot
                  THEN [ing[ip] EXCEPT !.same = FALSE] ELSE ing[ip]]
    /\ UNCHANGED <<now, blVars, h_data, updatedIPs, mutex, procReq, calcPc,
                   calcCutoff, calcUpdated, hExpCutoff, calcTimer, hExpTimer,
                   nReq, lastEval, calcCovers, tickState>>
    /\ UNCHANGED <<mainVars, lockVars>>

\* lines 169-176: process takes a request from reqChan and marks its IP
ProcReceive(ip, url) ==
    /\ procReq = NoReq
    /\ nReq < MaxReqs
    /\ nReq' = nReq + 1
    /\ procReq' = [IP |-> ip, URL |-> url]
    /\ updatedIPs' = updatedIPs \cup {ip}
    /\ UNCHANGED <<now, blVars, currentSlot, h_data, mutex, calcPc, calcCutoff,
                   calcUpdated, hExpCutoff, timers, ing, lastEval, calcCovers,
                   tickState>>
    /\ UNCHANGED <<mainVars, lockVars>>

\* lines 178-202: process counts the request under h.mutex
ProcUpdate ==
    /\ procReq # NoReq
    /\ mutex = "none"
    /\ LET ip == procReq.IP
       IN  /\ h_data' = MapPut(h_data, ip,
                               Ingest(Lookup(h_data, ip), currentSlot, procReq.URL))
           /\ ing' = [ing EXCEPT ![ip] =
                        IF MatchString(procReq.URL)
                        THEN [@ EXCEPT !.other = @ + 1]
                        ELSE [@ EXCEPT !.app = @ + 1]]
           /\ tickState' = [tickState EXCEPT ![ip] = "pending"]
           /\ calcCovers' = calcCovers \ {ip}
    /\ procReq' = NoReq
    /\ UNCHANGED <<now, blVars, currentSlot, updatedIPs, mutex, calcPc,
                   calcCutoff, calcUpdated, hExpCutoff, timers, nReq, lastEval>>
    /\ UNCHANGED <<mainVars, lockVars>>

\* a reset that keeps the marks
DrainedKeeps(marks) == marks

\* line 250: h.updatedIPs = make(map[string]bool)
Drained(marks) == {}

\* lines 244-251: the timer fires; cutoff; the touched set is taken and reset
CalcFire ==
    /\ calcPc = "wait"
    /\ now >= calcTimer
    /\ calcCutoff' = now - Window
    /\ calcUpdated' = updatedIPs
    /\ updatedIPs' = Drained(updatedIPs)
    /\ calcPc' = "lock"
    /\ calcCovers' = {ip \in IPs : tickState[ip] = "pending"}
    /\ UNCHANGED <<now, blVars, currentSlot, h_data, mutex, procReq, hExpCutoff,
                   timers, nReq, ing, lastEval, tickState>>
    /\ UNCHANGED <<mainVars, lockVars>>

\* line 254: h.mutex.Lock()
CalcLock ==
    /\ calcPc = "lock"
    /\ mutex = "none"
    /\ mutex' = "calculate"
    /\ calcPc' = "loop"
    /\ UNCHANGED <<now, blVars, currentSlot, h_data, updatedIPs, procReq,
                   calcCutoff, calcUpdated, hExpCutoff, timers, nReq, ing,
                   lastEval, calcCovers, tickState>>
    /\ UNCHANGED <<mainVars, lockVars>>

\* a loop that ranges over every IP, whatever was taken from the touched set
RangeOverAll(updated) == IPs

\* line 255: `for ip := range updated`, the keys the loop body is run for
RangeOver(updated) == updated

\* lines 255-291: one iteration of `for ip := range updated`, up to the call
\* of h.blacklist.Set, whose steps are SetCheck, SetPut and SetAdd
CalcEval(ip) ==
    /\ calcPc = "loop"
    /\ setPc[CalcCaller] = "idle"
    /\ ip \in RangeOver(calcUpdated)
    /\ calcUpdated' = calcUpdated \ {ip}
    /\ IF ip \notin DOMAIN h_data
       THEN /\ lastEval' = NoEval
            /\ UNCHANGED <<h_data, ing, setPc, setIP>>
       ELSE LET kept == ExpireOld(h_data[ip], calcCutoff)
                sums == Totals(kept)
                set == Blacklistable(sums[1], sums[2])
            IN  /\ h_data' = IF Len(kept) <= 0 THEN MapRemove(h_data, ip)
                             ELSE [h_data EXCEPT ![ip] = kept]
                /\ ing' = [ing EXCEPT ![ip] = IngAfterTrim(@, h_data[ip], kept)]
                /\ lastEval' = [ip |-> ip, total |-> sums[1], app |-> sums[2],
                                set |-> set]
                /\ IF set
                   THEN /\ setPc' = [setPc EXCEPT ![CalcCaller] = "check"]
                        /\ setIP' = [setIP EXCEPT ![CalcCaller] = ip]
                   ELSE UNCHANGED <<setPc, setIP>>
    /\ UNCHANGED <<now, bl_data, bl_expiry, expPc, expNow, expItem, expTimer,
                   lastAnswer, insAt, setReturned, currentSlot, updatedIPs,
                   mutex, procReq, calcPc, calcCutoff, hExpCutoff, timers, nReq,
                   calcCovers, tickState>>
    /\ UNCHANGED <<mainVars, lockVars>>

\* line 293: h.mutex.Unlock(), and back to the timer
CalcUnlock ==
    /\ calcPc = "loop"
    /\ setPc[CalcCaller] = "idle"
    /\ calcUpdated = {}
    /\ mutex' = "none"
    /\ calcPc' = "wait"
    /\ lastEval' = NoEval
    /\ tickState' = [ip \in IPs |->
            IF ip \in calcCovers /\ tickState[ip] = "pending" THEN "ticked"
            ELSE tickState[ip]]
    /\ calcCovers' = {}
    /\ calcCutoff' = 0
    /\ calcTimer' = now + Interval
    /\ UNCHANGED <<now, blVars, currentSlot, h_data, updatedIPs, procReq,
                   calcUpdated, hExpCutoff, clockTimer, hExpTimer, nReq, ing>>
    /\ UNCHANGED <<mainVars, lockVars>>

\* lines 207-236: the timer fires and every list is trimmed with the cutoff
\* taken before the wait (line 209); then the next cutoff is taken
HistoryExpire ==
    /\ now >= hExpTimer
    /\ mutex = "none"
    /\ LET kept == [ip \in DOMAIN h_data |-> ExpireOld(h_data[ip], hExpCutoff)]
       IN  /\ h_data' = [ip \in {x \in DOMAIN h_data : Len(kept[x]) > 0} |-> kept[ip]]
           /\ ing' = [ip \in IPs |->
                        IF ip \in DOMAIN h_data
                        THEN IngAfterTrim(ing[ip], h_data[ip], kept[ip])
                        ELSE ing[ip]]
    /\ hExpCutoff' = now - Window
    /\ hExpTimer' = now + ExpireInterval
    /\ UNCHANGED <<now, blVars, currentSlot, updatedIPs, mutex, procReq, calcPc,
                   calcCutoff, calcUpdated, clockTimer, calcTimer, nReq, lastEval,
                   calcCovers, tickState>>
    /\ UNCHANGED <<mainVars, lockVars>>

HistoryIdle ==
    /\ procReq = NoReq
    /\ calcPc = "wait"
    /\ now < clockTimer
    /\ now < calcTimer
    /\ now < hExpTimer

\* the wall clock advances while every task waits
Tick ==
    /\ now < MaxTime
    /\ BlacklistIdle
    /\ HistoryIdle
    /\ now' = now + 1
    /\ UNCHANGED <<blVars, hVars, tickState>>
    /\ UNCHANGED <<mainVars, lockVars>>

(***************************************************************************)
(* IPHistory with its Blacklist: NewIPHistory's four goroutines, the        *)
(* blacklist's sweep, and requests arriving on the request channel.        *)
(***************************************************************************)
Next ==
    \/ \E ip \in IPs, url \in URLs : ProcReceive(ip, url)
    \/ ProcUpdate
    \/ setTimestamp
    \/ CalcFire
    \/ CalcLock
    \/ \E ip \in IPs : CalcEval(ip)
    \/ SetCheck(CalcCaller)
    \/ SetPut(CalcCaller)
    \/ SetAdd(CalcCaller)
    \/ CalcUnlock
    \/ HistoryExpire
    \/ ExpireLoopFire
    \/ ExpireGet
    \/ ExpireRemoveExpiry
    \/ ExpireRemoveData
    \/ Tick

Spec == Init /\ [][Next]_vars

(***************************************************************************)
(* cmd/botdetect: the line loop of main and the History it creates.        *)
(* Text is a sequence of one-character strings.                            *)
(***************************************************************************)
\* index of the first ch in s, 0 if there is none (strings.Index)
Index(s, ch) ==
    IF \E i \in 1..Len(s) : s[i] = ch
    THEN CHOOSE i \in 1..Len(s) : s[i] = ch /\ \A j \in 1..(i - 1) : s[j] # ch
    ELSE 0

\* strings.Split(s, sep) for a one-character separator
RECURSIVE Split(_, _)
Split(s, sep) ==
    LET i == Index(s, sep)
    IN  IF i = 0 THEN <<s>>
        ELSE <<SubSeq(s, 1, i - 1)>> \o Split(SubSeq(s, i + 1, Len(s)), sep)

\* strings.TrimSpace(s)
RECURSIVE TrimSpace(_)
TrimSpace(s) ==
    IF s = <<>> THEN s
    ELSE IF Head(s) = " " THEN TrimSpace(Tail(s))
    ELSE IF s[Len(s)] = " " THEN TrimSpace(SubSeq(s, 1, Len(s) - 1))
    ELSE s

Digits == <<"0", "1", "2", "3", "4", "5", "6", "7", "8", "9">>
IsDigit(ch) == \E d \in 1..10 : Digits[d] = ch
DigitVal(ch) == (CHOOSE d \in 1..10 : Digits[d] = ch) - 1

\* the value of a dotted-decimal field, -1 if it is not a number of 1 to 3
\* digits below 256 (net.ParseIP's IPv4 fields)
RECURSIVE Atoi(_)
Atoi(s) ==
    IF s = <<>> THEN 0
    ELSE Atoi(SubSeq(s, 1, Len(s) - 1)) * 10 + DigitVal(s[Len(s)])
ParseOctet(s) ==
    IF /\ Len(s) \in 1..3
       /\ \A i \in 1..Len(s) : IsDigit(s[i])
       /\ Len(s) > 1 => s[1] # "0"
       /\ Atoi(s) < 256
    THEN Atoi(s) ELSE 0 - 1

\* main.go lines 119-121: net.ParseIP(ip).To16() of dotted-decimal text; the
\* address is kept as its four octets, NilIP when the text does not parse
parseIP(s) ==
    LET parts == Split(s, ".")
    IN  IF Len(parts) = 4 /\ \A i \in 1..4 : ParseOctet(parts[i]) >= 0
        THEN [i \in 1..4 |-> ParseOctet(parts[i])]
        ELSE NilIP

\* strconv.Itoa for 0..255
Itoa(n) ==
    IF n < 10 THEN <<Digits[n + 1]>>
    ELSE IF n < 100 THEN <<Digits[(n \div 10) + 1], Digits[(n % 10) + 1]>>
    ELSE <<Digits[(n \div 100) + 1], Digits[((n \div 10) % 10) + 1],
           Digits[(n % 10) + 1]>>

\* net.IP.String() of an IPv4 address
String(ip) ==
    Itoa(ip[1]) \o <<".">> \o Itoa(ip[2]) \o <<".">> \o Itoa(ip[3])
        \o <<".">> \o Itoa(ip[4])

\* ip.go lines 5-13: the IPv4 networks of the table, as <<address, prefix
\* length>>; the IPv6 networks of the table contain no IPv4 address
privateNetworks ==
    {<<<<127, 0, 0, 0>>, 8>>, <<<<10, 0, 0, 0>>, 8>>,
     <<<<172, 16, 0, 0>>, 12>>, <<<<192, 168, 0, 0>>, 16>>}

Pow2(n) == IF n = 0 THEN 1 ELSE IF n = 4 THEN 16 ELSE IF n = 8 THEN 256 ELSE 65536
\* net.IPNet.Contains for a prefix of at most 16 bits
Contains(n, ip) ==
    (ip[1] * 256 + ip[2]) \div Pow2(16 - n[2])
        = (n[1][1] * 256 + n[1][2]) \div Pow2(16 - n[2])

\* ip.go lines 34-41
IsPrivate(ip) == \E n \in privateNetworks : Contains(n, ip)

\* main.go lines 90 and 96: the condition under which a token becomes a
\* candidate; the flag ignorePrivateIPs is not consulted
IsCandidate(tok) ==
    LET p == parseIP(tok) IN p # NilIP /\ ~IsPrivate(p)

RECURSIVE AppendCandidates(_, _)
\* main.go lines 95-100: the loop over the forwarded-for entries
AppendCandidates(list, entries) ==
    IF entries = <<>> THEN list
    ELSE LET tok == TrimSpace(Head(entries))
         IN  AppendCandidates(IF IsCandidate(tok)
                              THEN Append(list, String(parseIP(tok)))
                              ELSE list,
                              Tail(entries))

\* main.go lines 86-100: the candidate list of a line's fields
Candidates(fields) ==
    AppendCandidates(IF IsCandidate(fields[1])
                     THEN <<String(parseIP(fields[1]))>> ELSE <<>>,
                     Split(fields[2], ","))

\* a lookup that finds every key
HistoryIsBlacklistedAlways(ip) == TRUE

\* history.go lines 407-413: History.IsBlacklisted
HistoryIsBlacklisted(ip) == ip \in hist_blacklist

\* main.go lines 76-100: a line is read and split; a line of fewer than two
\* fields is answered at once, otherwise the candidates are collected
MainScan(line) ==
    /\ ~panicked
    /\ mainPc = "scan"
    /\ Len(stdin) < MaxLines
    /\ stdin' = Append(stdin, line)
    /\ queries' = Append(queries, <<>>)
    /\ dataAtScan' = hist_data
    /\ LET fields == Split(line, "|")
       IN  IF Len(fields) < 2
           THEN /\ stdout' = Append(stdout, ok)
                /\ UNCHANGED <<mainPc, ips, mainIdx, decision>>
           ELSE /\ ips' = Candidates(fields)
                /\ decision' = ok
                /\ mainIdx' = 1
                /\ mainPc' = IF Candidates(fields) = <<>> THEN "write" ELSE "query"
                /\ UNCHANGED stdout
    /\ UNCHANGED <<lockVars, now, blVars, hVars, tickState, ignorePrivateIPs,
                   hist_data, hist_blacklist, sent, histCalcTimer, panicked,
                   hist_currentSlot, histClockTimer, histListed,
                   ctxDone, returned>>

\* main.go lines 103-111: one iteration of the loop over ips
MainQuery ==
    /\ ~panicked
    /\ mainPc = "query"
    /\ LET ip == ips[mainIdx]
           blacklisted == HistoryIsBlacklisted(ip)
       IN  /\ queries' = [queries EXCEPT ![Len(queries)] =
                             Append(@, <<ip, ip \in hist_blacklist>>)]
           /\ IF blacklisted
              THEN /\ decision' = block
                   /\ mainPc' = "write"
                   /\ UNCHANGED mainIdx
              ELSE /\ mainIdx' = mainIdx + 1
                   /\ mainPc' = IF mainIdx + 1 > Len(ips) THEN "write" ELSE "query"
                   /\ UNCHANGED decision
    /\ UNCHANGED <<lockVars, now, blVars, hVars, tickState, ignorePrivateIPs, ips, stdin,
                   stdout, hist_data, hist_blacklist, sent, dataAtScan,
                   histCalcTimer, panicked, hist_currentSlot, histClockTimer,
                   histListed,
                   ctxDone, returned>>

\* main.go line 115: the verdict is written
MainWrite ==
    /\ ~panicked
    /\ mainPc = "write"
    /\ stdout' = Append(stdout, decision)
    /\ mainPc' = "scan"
    /\ ips' = <<>>
    /\ mainIdx' = 0
    /\ decision' = ok
    /\ UNCHANGED <<lockVars, now, blVars, hVars, tickState, ignorePrivateIPs, stdin,
                   queries, hist_data, hist_blacklist, sent, dataAtScan,
                   histCalcTimer, panicked, hist_currentSlot, histClockTimer,
                   histListed,
                   ctxDone, returned>>

\* history.go lines 463-505: History.calculate's timer fires.  The pass
\* trims and sums every series; line 497 writes to the nil map that
\* new(Blacklist) points to, which panics; a pass that reaches no such
\* write installs the new, empty blacklist.
HistoryCalculate ==
    /\ ~panicked
    /\ now >= histCalcTimer
    /\ LET cutoff == now - Window
           kept == [ip \in DOMAIN hist_data |-> ExpireOld(hist_data[ip], cutoff)]
           listed == {ip \in DOMAIN hist_data :
                         Blacklistable(Totals(kept[ip])[1], Totals(kept[ip])[2])}
       IN  IF listed # {}
           THEN /\ panicked' = TRUE
                /\ UNCHANGED <<hist_data, hist_blacklist>>
           ELSE /\ hist_data' = [ip \in {k \in DOMAIN hist_data : Len(kept[k]) > 0}
                                    |-> kept[ip]]
                /\ hist_blacklist' = {}
                /\ UNCHANGED panicked
    /\ histListed' = {ip \in DOMAIN hist_data :
                         Blacklistable(Totals(ExpireOld(hist_data[ip], now - Window))[1],
                                       Totals(ExpireOld(hist_data[ip], now - Window))[2])}
    /\ histCalcTimer' = now + Interval
    /\ UNCHANGED <<lockVars, now, blVars, hVars, tickState, ignorePrivateIPs, mainPc, ips,
                   mainIdx, decision, stdin, stdout, queries, sent, dataAtScan,
                   hist_currentSlot, histClockTimer,
                   ctxDone, returned>>

\* history.go lines 386-404: History.setTimestamp writes the current slot, at
\* start and then every TimeSlot
HistorySetTimestamp ==
    /\ ~panicked
    /\ now >= histClockTimer
    /\ hist_currentSlot' = Truncate(now, TimeSlot)
    /\ histClockTimer' = now + TimeSlot
    /\ UNCHANGED <<lockVars, now, blVars, hVars, tickState, ignorePrivateIPs, mainPc, ips,
                   mainIdx, decision, stdin, stdout, queries, hist_data,
                   hist_blacklist, sent, dataAtScan, histCalcTimer, panicked,
                   histListed,
                   ctxDone, returned>>

\* the wall clock advances while main waits for a line and no timer of the
\* History is due
TickMain ==
    /\ now < MaxTime
    /\ mainPc = "scan"
    /\ now < histCalcTimer
    /\ now < histClockTimer
    /\ now' = now + 1
    /\ UNCHANGED <<blVars, hVars, tickState, mainVars, lockVars>>

\* History.process (lines 422-456) waits on reqChan; main never sends on
\* it, so the goroutine takes no step.
NextMain ==
    \/ \E line \in InputLines : MainScan(line)
    \/ MainQuery
    \/ MainWrite
    \/ HistoryCalculate
    \/ HistorySetTimestamp
    \/ TickMain

SpecMain == InitFlags /\ [][NextMain]_vars

(***************************************************************************)
(* The History used as a library: a client sends Requests on              *)
(* RequestChannel() beside the clock and the decision loop.                *)
(***************************************************************************)
\* history.go lines 427-453: process receives a Request (the channel is
\* unbuffered: the send completes when process takes it) and counts it
\* under h.mutex
HistoryProcess(ip, url) ==
    /\ ~panicked
    /\ Len(sent) < MaxReqs
    /\ sent' = Append(sent, [IP |-> ip, URL |-> url])
    /\ hist_data' = MapPut(hist_data, ip,
                           Ingest(Lookup(hist_data, ip), hist_currentSlot, url))
    /\ UNCHANGED <<lockVars, now, blVars, hVars, tickState, ignorePrivateIPs, mainPc, ips,
                   mainIdx, decision, stdin, stdout, queries, hist_blacklist,
                   dataAtScan, histCalcTimer, panicked, hist_currentSlot,
                   histClockTimer, histListed,
                   ctxDone, returned>>

\* the wall clock advances while every task of the History waits
TickHistory ==
    /\ ~panicked
    /\ now < MaxTime
    /\ now < histCalcTimer
    /\ now < histClockTimer
    /\ now' = now + 1
    /\ UNCHANGED <<blVars, hVars, tickState, mainVars, lockVars>>

NextHistory ==
    \/ \E ip \in IPs, url \in URLs : HistoryProcess(ip, url)
    \/ HistorySetTimestamp
    \/ HistoryCalculate
    \/ TickHistory

SpecHistory == Init /\ [][NextHistory]_vars

(***************************************************************************)
(* Cancellation: the IPHistory and its Blacklist with a context that is    *)
(* cancelled at some point.  Every task's loop is                          *)
(* select { case <-ctx.Done(): return; case <-timer or channel: ... }.     *)
(***************************************************************************)
Tasks == {"clock", "process", "expire", "calculate", "expireLoop"}
\* requests sent and last instant of the clock in the runs with cancellation
CancelMaxReqs == 2
CancelMaxTime == 4
\* the requests sent in the runs with cancellation: application requests of
\* one IP
CancelIPs == {"203.0.113.5"}
CancelURLs == {PathHtml}

\* calculate is at its select wherever it is
CalcAtSelectAnywhere == TRUE

\* history.go lines 240-244: calculate is at its select
CalcAtSelect == calcPc = "wait"

\* the task is at the select of its loop
AtSelect(task) ==
    CASE task = "clock" -> TRUE
      [] task = "process" -> procReq = NoReq
      [] task = "expire" -> TRUE
      [] task = "calculate" -> CalcAtSelect
      [] task = "expireLoop" -> expPc = "wait"

\* cancel() is called
Cancel ==
    /\ ~ctxDone
    /\ ctxDone' = TRUE
    /\ UNCHANGED <<lockVars, now, blVars, hVars, tickState, ignorePrivateIPs, mainPc, ips,
                   mainIdx, decision, stdin, stdout, queries, hist_data,
                   hist_blacklist, sent, dataAtScan, histCalcTimer, panicked,
                   hist_currentSlot, histClockTimer, histListed, returned>>

\* case <-ctx.Done(): return (history.go lines 110, 167, 212, 242 and
\* expireLoop's first case)
Return(task) ==
    /\ ctxDone
    /\ task \notin returned
    /\ AtSelect(task)
    /\ returned' = returned \cup {task}
    /\ UNCHANGED <<lockVars, now, blVars, hVars, tickState, ignorePrivateIPs, mainPc, ips,
                   mainIdx, decision, stdin, stdout, queries, hist_data,
                   hist_blacklist, sent, dataAtScan, histCalcTimer, panicked,
                   hist_currentSlot, histClockTimer, histListed, ctxDone>>

Running(task) == task \notin returned

\* the wall clock advances while every task waits
TickCancel ==
    /\ now < CancelMaxTime
    /\ Tick

\* the steps of the tasks; a task that has returned takes none
CancelProgress ==
    \/ \E task \in Tasks : Return(task)
    \/ Running("process") /\ ProcUpdate
    \/ Running("clock") /\ setTimestamp
    \/ Running("calculate") /\ CalcFire
    \/ Running("calculate") /\ CalcLock
    \/ Running("calculate") /\ \E ip \in IPs : CalcEval(ip)
    \/ Running("calculate") /\ SetCheck(CalcCaller)
    \/ Running("calculate") /\ SetPut(CalcCaller)
    \/ Running("calculate") /\ SetAdd(CalcCaller)
    \/ Running("calculate") /\ CalcUnlock
    \/ Running("expire") /\ HistoryExpire
    \/ Running("expireLoop") /\ ExpireLoopFire
    \/ Running("expireLoop") /\ ExpireGet
    \/ Running("expireLoop") /\ ExpireRemoveExpiry
    \/ Running("expireLoop") /\ ExpireRemoveData

NextCancel ==
    \/ Cancel
    \/ CancelProgress
    \/ Running("process") /\ nReq < CancelMaxReqs
          /\ \E ip \in CancelIPs, url \in CancelURLs : ProcReceive(ip, url)
    \/ TickCancel

\* a task that can take a step is scheduled: some enabled step is taken
SpecCancel == Init /\ [][NextCancel]_vars /\ WF_vars(CancelProgress)

(***************************************************************************)
(* Claims about the Blacklist, under SpecBL.                               *)
(***************************************************************************)
\* no Set call and no sweep is in progress
Quiescent ==
    /\ \A c \in SetCallers : setPc[c] = "idle"
    /\ expPc = "wait"

\* the sweep due at the current instant, if any, has run
SweepRan == expPc = "wait" /\ now < expTimer

ExpiryIPs == {bl_expiry[i].IP : i \in 1..Len(bl_expiry)}

\* C1: an IP that Set inserted at time t (it was absent) is blacklisted at
\* every time in [t, t+ttl) and is not blacklisted at any time from
\* t+ttl+expire_interval on, unless it was inserted again after its removal
\* (insAt is the latest insertion).  The instant t+ttl+expire_interval itself
\* is read in the claim's favour: the answer is taken once the sweep of that
\* instant has run.
C1_BlockedForTTLThenUnblocked ==
    \A ip \in IPs :
        insAt[ip] # Never =>
            /\ now < insAt[ip] + BlacklistTTL => IsBlacklisted(ip)
            /\ (\/ now > insAt[ip] + BlacklistTTL + ExpireInterval
                \/ now = insAt[ip] + BlacklistTTL + ExpireInterval /\ SweepRan)
               => ~IsBlacklisted(ip)

\* C2: a Set call that finds its IP present returns at once and changes
\* neither the membership map nor the expiry list (no refreshed and no second
\* expiry record), so the IP's removal stays that of the first call.
C2_SetOnPresentIsNoOp ==
    [][\A c \in SetCallers :
          (setPc[c] = "check" /\ setIP[c] \in bl_data /\ setPc'[c] # "check")
              => /\ setPc'[c] = "idle"
                 /\ bl_data' = bl_data
                 /\ bl_expiry' = bl_expiry]_vars

\* a Set call found its IP present at a later instant than the insertion and
\* returned; the IP still has its one record, stamped by the first call
C2_Witness ==
    /\ setReturned[1] \in IPs
    /\ Quiescent
    /\ setReturned[1] \in bl_data
    /\ insAt[setReturned[1]] < setReturned[2]
    /\ CountIP(bl_expiry, setReturned[1]) = 1
    /\ \A i \in 1..Len(bl_expiry) :
          bl_expiry[i].IP = setReturned[1]
              => bl_expiry[i].Expires = insAt[setReturned[1]] + BlacklistTTL

\* C10: under concurrent Set calls and the sweep, no IP has more than one
\* expiry record, and while no Set and no sweep is in progress the IPs of
\* the membership map are exactly the IPs of the expiry list.
C10_OneExpiryRecordPerIP ==
    /\ \A ip \in IPs : CountIP(bl_expiry, ip) <= 1
    /\ Quiescent => bl_data = ExpiryIPs

(***************************************************************************)
(* Claims about IPHistory, under Spec.                                     *)
(***************************************************************************)
\* list[1].f + ... + list[n].f
RECURSIVE SumField(_, _, _)
SumField(list, f, n) ==
    IF n = 0 THEN 0 ELSE list[n][f] + SumField(list, f, n - 1)

\* the same sum over the items that are not older than Window at time t
RECURSIVE SumFresh(_, _, _, _)
SumFresh(list, f, n, t) ==
    IF n = 0 THEN 0
    ELSE (IF t - list[n].Timestamp > Window THEN 0 ELSE list[n][f])
         + SumFresh(list, f, n - 1, t)

\* the block rule on the counts a list holds
RuleHolds(list) ==
    LET total == SumField(list, "Count", Len(list))
        app == SumField(list, "App", Len(list))
    IN  /\ app > MaxRequests
        /\ total * MaxRatioDen > MaxRatioNum * app

\* the list of the IP that calculate's loop body has just handled; h.mutex
\* is held, so it is the list the body left
EvalList == Lookup(h_data, lastEval.ip)
\* the instant of the pass: cutoff = now - Window (line 245)
PassNow == calcCutoff + Window

C4_BlockedAfterNextTick ==
    \A ip \in IPs :
        (/\ tickState[ip] = "ticked"
         /\ calcPc = "wait"
         /\ procReq.IP # ip
         /\ ip \in DOMAIN h_data
         /\ RuleHolds(h_data[ip]))
            => IsBlacklisted(ip)

\* C5: after n application and m asset requests of an IP are counted while
\* the current slot does not change (and nothing of its series is trimmed),
\* the series is one item with Count = n+m, App = n, Other = m, and the
\* totals are <<n+m, n>>.
C5_OneBucketPerSlot ==
    \A ip \in IPs :
        (ing[ip].same /\ ing[ip].app + ing[ip].other > 0)
            => /\ ip \in DOMAIN h_data
               /\ h_data[ip] = <<[Timestamp |-> currentSlot,
                                  Count |-> ing[ip].app + ing[ip].other,
                                  App |-> ing[ip].app,
                                  Other |-> ing[ip].other]>>
               /\ Totals(h_data[ip]) = <<ing[ip].app + ing[ip].other, ing[ip].app>>

\* an IP with application and asset requests counted in one slot
C5_Witness ==
    \E ip \in IPs :
        /\ ing[ip].same
        /\ ing[ip].app >= 1
        /\ ing[ip].other >= 1
        /\ ip \in DOMAIN h_data
        /\ Len(h_data[ip]) = 1

\* C6: in a decision pass run at time now, no item whose slot t has
\* now - t > Window is left in the series or counted in total and app.
C6_NoStaleBucketCounted ==
    (calcPc = "loop" /\ lastEval.ip # NoIP)
        => /\ \A i \in 1..Len(EvalList) :
                 ~(PassNow - EvalList[i].Timestamp > Window)
           /\ lastEval.total = SumFresh(EvalList, "Count", Len(EvalList), PassNow)
           /\ lastEval.app = SumFresh(EvalList, "App", Len(EvalList), PassNow)

\* a pass has trimmed the old part of a series and summed the rest
C6_Witness ==
    /\ calcPc = "loop"
    /\ lastEval.ip \in DOMAIN h_data
    /\ lastEval.total > 0
    /\ lastEval.total < ing[lastEval.ip].app + ing[lastEval.ip].other

(***************************************************************************)
(* Claims about cmd/botdetect, under SpecMain.                             *)
(***************************************************************************)
\* number of "|" characters in a line
PipeCount(line) == Cardinality({i \in 1..Len(line) : line[i] = "|"})

\* the ips of the queries made for the i-th line, in order
QueriedIPs(i) == [k \in 1..Len(queries[i]) |-> queries[i][k][1]]

\* C7: one verdict per input line, in input order; BLOCK if and only if a
\* candidate of the line was in the blacklist when it was queried, otherwise
\* OK (and then every candidate was queried); a line with fewer than two
\* fields yields OK, queries nothing and changes no IP's series.
C7_OneVerdictPerLine ==
    /\ Len(stdout) = Len(stdin) - (IF mainPc = "scan" THEN 0 ELSE 1)
    /\ \A i \in 1..Len(stdout) :
          /\ stdout[i] \in {ok, block}
          /\ stdout[i] = block <=> \E k \in 1..Len(queries[i]) : queries[i][k][2]
          /\ PipeCount(stdin[i]) = 0 => stdout[i] = ok /\ queries[i] = <<>>
          /\ (PipeCount(stdin[i]) > 0 /\ stdout[i] = ok)
                => QueriedIPs(i) = Candidates(Split(stdin[i], "|"))
    /\ (stdin # <<>> /\ PipeCount(stdin[Len(stdin)]) = 0)
          => /\ mainPc = "scan"
             /\ hist_data = dataAtScan
             /\ sent = <<>>

\* a line without "|" and a line whose candidate was queried have both been
\* answered
C7_Witness ==
    \E i, j \in 1..Len(stdout) :
        /\ PipeCount(stdin[i]) = 0
        /\ PipeCount(stdin[j]) > 0
        /\ Len(queries[j]) >= 1
        /\ i < j

\* number of candidates of the first n lines read
RECURSIVE CandidateCount(_)
CandidateCount(n) ==
    IF n = 0 THEN 0
    ELSE CandidateCount(n - 1)
         + (IF PipeCount(stdin[n]) = 0 THEN 0
            ELSE Len(Candidates(Split(stdin[n], "|"))))

\* C8: when a line has been answered, one Request per candidate of every
\* line read so far has been sent on the History's request channel.
C8_IngestsEachCandidate ==
    mainPc = "scan" => Len(sent) = CandidateCount(Len(stdin))

\* the candidates of a line when only unparseable tokens are dropped and
\* private addresses are dropped only if filtering is enabled
RECURSIVE ExpectedCandidates(_, _)
ExpectedCandidates(tokens, filter) ==
    IF tokens = <<>> THEN <<>>
    ELSE LET p == parseIP(Head(tokens))
         IN  (IF p = NilIP \/ (filter /\ IsPrivate(p)) THEN <<>> ELSE <<String(p)>>)
             \o ExpectedCandidates(Tail(tokens), filter)

\* the source IP and the trimmed forwarded-for entries of a line
Tokens(line) ==
    LET fields == Split(line, "|")
        entries == Split(fields[2], ",")
    IN  <<fields[1]>> \o [k \in 1..Len(entries) |-> TrimSpace(entries[k])]

\* C9: the candidates of a line are the source IP and the forwarded-for
\* entries that parse, without the private addresses when private-IP
\* filtering is enabled and with them when it is disabled.
C9_CandidatesFollowFlag ==
    mainPc \in {"query", "write"}
        => ips = ExpectedCandidates(Tokens(stdin[Len(stdin)]), ignorePrivateIPs)

(***************************************************************************)
(* Claims about the History, under SpecHistory.                            *)
(***************************************************************************)
\* C11: no sequence of requests, clock ticks and decision passes drives a
\* background task into a panic; a decision pass in which an IP meets the
\* block rule completes and records the IP.
C11_NoFatalError ==
    /\ ~panicked
    /\ \A ip \in histListed : HistoryIsBlacklisted(ip)

(***************************************************************************)
(* Further claims about IPHistory, under Spec.                             *)
(***************************************************************************)
\* C12: every item of every IP's series has Count = App + Other.
C12_CountIsAppPlusOther ==
    \A ip \in DOMAIN h_data :
        \A i \in 1..Len(h_data[ip]) :
            h_data[ip][i].Count = h_data[ip][i].App + h_data[ip][i].Other

\* a series of two items, one of them with requests of both classes
C12_Witness ==
    \E ip \in DOMAIN h_data :
        /\ Len(h_data[ip]) >= 2
        /\ \E i \in 1..Len(h_data[ip]) :
              h_data[ip][i].App >= 1 /\ h_data[ip][i].Other >= 1

\* timestamps strictly decreasing from front to back
StrictlyDecreasing(list) ==
    \A i \in 1..(Len(list) - 1) : list[i].Timestamp > list[i + 1].Timestamp

\* C13: each IP's series has strictly decreasing slot timestamps from front
\* to back (so at most one item per slot), and process prepends an item
\* exactly when the series is empty or the current slot differs from the
\* slot of its front item.
C13_OneBucketPerSlotOrdered ==
    [][/\ \A ip \in DOMAIN h_data' : StrictlyDecreasing(h_data'[ip])
       /\ (procReq # NoReq /\ procReq' = NoReq)
             => LET old == Lookup(h_data, procReq.IP)
                    new == h_data'[procReq.IP]
                IN  IF old = <<>> \/ old[1].Timestamp # currentSlot
                    THEN /\ Len(new) = Len(old) + 1
                         /\ new[1].Timestamp = currentSlot
                         /\ Tail(new) = old
                    ELSE /\ Len(new) = Len(old)
                         /\ new[1].Timestamp = old[1].Timestamp]_vars

\* a series of two items whose front item has counted two requests: process
\* has prepended once for a new slot and once counted in place
C13_Witness ==
    \E ip \in DOMAIN h_data :
        /\ Len(h_data[ip]) >= 2
        /\ h_data[ip][1].Count >= 2
        /\ h_data[ip][1].Timestamp > h_data[ip][2].Timestamp

\* largest count and largest MaxRequests for which the rule is tabulated
RuleMax == 3
\* values of MaxRatio, as numerators over MaxRatioDen: -1, 0, 0.85, 1, 2
Ratios == {0 - MaxRatioDen, 0, MaxRatioNum, MaxRatioDen, 2 * MaxRatioDen}

\* C14: an IP whose retained items hold no application request, also one
\* whose series the pass has just emptied, is not passed to Set by the pass;
\* the rule is false for app = 0 whatever total, MaxRequests and MaxRatio
\* are.
C14_ZeroAppNeverBlocked ==
    (calcPc = "loop" /\ lastEval.ip # NoIP /\ lastEval.app = 0)
        => /\ ~lastEval.set
           /\ setPc[CalcCaller] = "idle"
           /\ \A total \in 0..RuleMax, maxReq \in 0..RuleMax, num \in Ratios :
                 ~BlockRule(total, 0, maxReq, num, MaxRatioDen)

\* a pass has evaluated an IP with asset requests only
C14_Witness ==
    /\ calcPc = "loop"
    /\ lastEval.ip \in DOMAIN h_data
    /\ lastEval.app = 0
    /\ lastEval.total > 0
    /\ ~lastEval.set

(***************************************************************************)
(* Claims about cancellation, under SpecCancel.                            *)
(***************************************************************************)
\* the task holds h.mutex, or is inside a call that takes the Blacklist's
\* locks
HoldsLock(task) ==
    \/ mutex = task
    \/ task = "calculate" /\ setPc[CalcCaller] # "idle"

\* C15: after the context is cancelled every background task (clock,
\* process, sweep, decision loop, the Blacklist's expireLoop) eventually
\* returns, and a task that has returned holds no lock.
C15_TasksTerminate ==
    /\ ctxDone ~> (returned = Tasks)
    /\ [](\A task \in returned : ~HoldsLock(task))

\* every task has returned after a cancellation that came while an IP was
\* blacklisted
C15_Witness ==
    /\ ctxDone
    /\ returned = Tasks
    /\ bl_data # {}
    /\ mutex = "none"

(***************************************************************************)
(* Further claims about the Blacklist, under SpecBL.                       *)
(***************************************************************************)
\* C16: an IsBlacklisted call changes neither the membership map nor the
\* expiry list, and its answer is membership in the map as it stands, also
\* for an entry whose expiry has passed and that no sweep has removed yet;
\* so calls repeated on an unchanged map give the same answer.
C16_IsBlacklistedReadsOnly ==
    [][lastAnswer' # lastAnswer
          => /\ bl_data' = bl_data
             /\ bl_expiry' = bl_expiry
             /\ lastAnswer'[2] <=> (lastAnswer'[1] \in bl_data')]_vars

\* the call answered true for an IP whose only expiry record is due and not
\* yet swept
C16_Witness ==
    \E ip \in IPs :
        /\ lastAnswer = <<ip, TRUE, TRUE>>
        /\ ip \in bl_data
        /\ CountIP(bl_expiry, ip) = 1
        /\ \A i \in 1..Len(bl_expiry) :
              bl_expiry[i].IP = ip => bl_expiry[i].Expires <= now
        /\ insAt[ip] + BlacklistTTL <= now

(***************************************************************************)
(* Further claims about the History, under SpecHistory.                    *)
(***************************************************************************)
\* C17: each decision pass of the History replaces the blacklist: after a
\* pass, IsBlacklisted(ip) is true exactly for the ips that met the block
\* rule in that pass, and no entry of an earlier pass persists.
C17_BlacklistIsLastPass ==
    \A ip \in IPs : HistoryIsBlacklisted(ip) <=> ip \in histListed

(***************************************************************************)
(* Claims about the sweep of IPHistory, under Spec.                        *)
(***************************************************************************)
\* the sweep of IPHistory has run at the present instant
SweptNow == now > 0 /\ hExpTimer = now + ExpireInterval

\* C18: after a sweep run at time now no series holds an item with slot
\* <= now - Window, and whenever h.mutex is free every key of the map has a
\* non-empty series.
C18_SweepLeavesNoStale ==
    /\ SweptNow
          => \A ip \in DOMAIN h_data :
                \A i \in 1..Len(h_data[ip]) :
                    h_data[ip][i].Timestamp > now - Window
    /\ mutex = "none" => \A ip \in DOMAIN h_data : h_data[ip] # <<>>

(***************************************************************************)
(* Claims about the sweep of the Blacklist, under SpecBL.                  *)
(***************************************************************************)
\* the `now` of the last sweep that has returned (0 before the first)
LastSweep == expTimer - ExpireInterval

\* C19: the expiry list is ordered by non-decreasing Expires from head to
\* tail, also under concurrent Set calls, and once a sweep has returned no
\* record with Expires before the sweep's now is left in the list, and no IP
\* of the map has such a record.
C19_SweepRemovesAllExpired ==
    /\ \A i \in 1..(Len(bl_expiry) - 1) :
          bl_expiry[i].Expires <= bl_expiry[i + 1].Expires
    /\ expPc = "wait"
          => /\ \A i \in 1..Len(bl_expiry) : ~(bl_expiry[i].Expires < LastSweep)
             /\ \A ip \in bl_data :
                   \A i \in 1..Len(bl_expiry) :
                       bl_expiry[i].IP = ip => bl_expiry[i].Expires >= LastSweep

\* a sweep has just returned after removing an IP and stopping at a record
\* that is not yet due
C19_Witness ==
    /\ expPc = "wait"
    /\ now > 0
    /\ LastSweep = now
    /\ bl_expiry # <<>>
    /\ \E ip \in IPs : insAt[ip] # Never /\ ip \notin bl_data
                       /\ CountIP(bl_expiry, ip) = 0

(***************************************************************************)
(* Claims about the touched set of IPHistory, under Spec.                  *)
(***************************************************************************)
\* C20: draining the touched set is atomic with respect to marking: a drain
\* returns every mark set since the previous drain and leaves the set
\* empty, an ingest adds its IP's mark, and no other step changes the set;
\* so every mark is returned by exactly one drain.
C20_DrainIsAtomic ==
    [][IF calcPc = "wait" /\ calcPc' = "lock"
       THEN /\ calcUpdated' = updatedIPs
            /\ updatedIPs' = {}
       ELSE IF procReq = NoReq /\ procReq' # NoReq
       THEN updatedIPs' = updatedIPs \cup {procReq'.IP}
       ELSE updatedIPs' = updatedIPs]_vars

\* a drain has returned a mark, and an ingest has set a mark while the pass
\* that drained is still running
C20_Witness ==
    /\ calcPc \in {"lock", "loop"}
    /\ calcUpdated # {}
    /\ updatedIPs # {}
    /\ procReq # NoReq

(***************************************************************************)
(* Claims about the frame of a decision pass, under Spec.                  *)
(***************************************************************************)
\* the IP that this step of calculate's loop runs the body for
EvaluatedNow == calcUpdated \ calcUpdated'

\* C21: a decision pass evaluates only the IPs taken from the touched set.
\* The set it ranges over is the touched set as it was when the pass began
\* and only shrinks; while the pass holds h.mutex the series of an IP that
\* this step does not evaluate is left as it is (not trimmed, not deleted);
\* the pass calls Set only for the IP it evaluates, and only the IP of a Set
\* call in progress enters the blacklist.
C21_PassTouchesOnlyDrained ==
    [][/\ (calcPc = "wait" /\ calcPc' = "lock") => calcUpdated' = updatedIPs
       /\ calcPc # "wait" => calcUpdated' \subseteq calcUpdated
       /\ (mutex = "calculate" /\ mutex' = "calculate")
            => \A ip \in IPs \ EvaluatedNow :
                  Lookup(h_data', ip) = Lookup(h_data, ip)
       /\ (setPc[CalcCaller] = "idle" /\ setPc'[CalcCaller] # "idle")
            => /\ EvaluatedNow = {setIP'[CalcCaller]}
               /\ setIP'[CalcCaller] \in calcUpdated
       /\ bl_data' \subseteq bl_data \cup {setIP[CalcCaller]}]_vars

\* a pass has run its loop to the end for other IPs, and an IP that was not
\* marked when the pass began holds counts that satisfy the block rule and is
\* not blocked
C21_Witness ==
    /\ calcPc = "loop"
    /\ calcUpdated = {}
    /\ lastEval.ip # NoIP
    /\ \E ip \in DOMAIN h_data :
          /\ ip # lastEval.ip
          /\ ip \notin updatedIPs
          /\ RuleHolds(h_data[ip])
          /\ ip \notin bl_data

(***************************************************************************)
(* The goroutines at the granularity of their lock operations              *)
(*                                                                         *)
(* Every Lock, RLock, Unlock and RUnlock of history.go lines 102-297 and   *)
(* of part_002 lines 49-124 is a step of its own, and lpc holds the line   *)
(* each goroutine is at.  The six locks are kept in writer, readers and    *)
(* asking; the variables mutex, calcPc, setPc and expPc of the coarser     *)
(* actions above are not used here.  The result of the lookup of line 82   *)
(* steers no lock operation and is not kept.                               *)
(***************************************************************************)
\* the horizon, the number of requests and the requests of these runs
LockMaxTime == 4
LockMaxReqs == 2
LockIPs == {"203.0.113.5"}
LockURLs == {PathHtml}

\* the variables that no step of this part changes
lockFrame == <<setPc, expPc, lastAnswer, insAt, setReturned, mutex, calcPc, ing,
               lastEval, calcCovers, tickState, mainVars>>
\* the data that the steps of this part read and write
dataVars == <<now, bl_data, bl_expiry, setIP, expNow, expItem, expTimer,
              currentSlot, h_data, updatedIPs, procReq, calcCutoff,
              calcUpdated, hExpCutoff, clockTimer, calcTimer, hExpTimer, nReq>>

Goto(t, line) == lpc' = [lpc EXCEPT ![t] = line]

\* sync.RWMutex.Lock: taken at once when nobody holds the lock; with readers
\* inside, the call is announced, new readers are held back, and the lock is
\* taken when the last reader has left
Lock(t, m, line) ==
    IF writer[m] = "none" /\ readers[m] = {} /\ asking[m] \in {"none", t}
    THEN /\ writer' = [writer EXCEPT ![m] = t]
         /\ asking' = [asking EXCEPT ![m] = "none"]
         /\ Goto(t, line)
         /\ UNCHANGED readers
    ELSE /\ writer[m] = "none"
         /\ asking[m] = "none"
         /\ asking' = [asking EXCEPT ![m] = t]
         /\ UNCHANGED <<lpc, writer, readers>>

\* sync.RWMutex.RLock: waits for a writer inside and for an announced one
RLock(t, m, line) ==
    /\ writer[m] = "none"
    /\ asking[m] = "none"
    /\ readers' = [readers EXCEPT ![m] = @ \cup {t}]
    /\ Goto(t, line)
    /\ UNCHANGED <<writer, asking>>

\* an Unlock that leaves the lock taken
UnlockNever(t, m) == UNCHANGED <<writer, readers, asking>>

\* sync.RWMutex.Unlock
Unlock(t, m) ==
    /\ writer' = [writer EXCEPT ![m] = "none"]
    /\ UNCHANGED <<readers, asking>>

\* sync.RWMutex.RUnlock
RUnlock(t, m) ==
    /\ readers' = [readers EXCEPT ![m] = @ \ {t}]
    /\ UNCHANGED <<writer, asking>>

\* ---- setTimestamp, history.go lines 102-120 ----
\* lines 103 and 113: h.tsmutex.Lock()
setTimestampLock ==
    /\ lpc["setTimestamp"] \in {"l103", "l113"}
    /\ Lock("setTimestamp", "tsmutex",
            IF lpc["setTimestamp"] = "l103" THEN "l104" ELSE "l114")
    /\ UNCHANGED <<dataVars, lockFrame>>

\* lines 104 and 114: h.currentSlot = time.Now().Truncate(slot)
setTimestampWrite ==
    /\ lpc["setTimestamp"] \in {"l104", "l114"}
    /\ currentSlot' = Truncate(now, TimeSlot)
    /\ Goto("setTimestamp", IF lpc["setTimestamp"] = "l104" THEN "l106" ELSE "l116")
    /\ UNCHANGED <<now, bl_data, bl_expiry, setIP, expNow, expItem, expTimer,
                   h_data, updatedIPs, procReq, calcCutoff, calcUpdated,
                   hExpCutoff, clockTimer, calcTimer, hExpTimer, nReq>>
    /\ UNCHANGED <<writer, readers, asking, lockFrame>>

\* lines 106 and 116: h.tsmutex.Unlock(), then the select with
\* time.After(TimeSlot) of line 112
setTimestampUnlock ==
    /\ lpc["setTimestamp"] \in {"l106", "l116"}
    /\ Unlock("setTimestamp", "tsmutex")
    /\ Goto("setTimestamp", "l112")
    /\ clockTimer' = now + TimeSlot
    /\ UNCHANGED <<now, bl_data, bl_expiry, setIP, expNow, expItem, expTimer,
                   currentSlot, h_data, updatedIPs, procReq, calcCutoff,
                   calcUpdated, hExpCutoff, calcTimer, hExpTimer, nReq>>
    /\ UNCHANGED lockFrame

\* line 112: the timer fires
setTimestampL112 ==
    /\ lpc["setTimestamp"] = "l112"
    /\ now >= clockTimer
    /\ Goto("setTimestamp", "l113")
    /\ UNCHANGED <<writer, readers, asking, dataVars, lockFrame>>

\* ---- process, history.go lines 164-205 ----
\* line 169: req := <-h.reqChan
processL169(ip, url) ==
    /\ lpc["process"] = "l169"
    /\ nReq < LockMaxReqs
    /\ nReq' = nReq + 1
    /\ procReq' = [IP |-> ip, URL |-> url]
    /\ Goto("process", "l174")
    /\ UNCHANGED <<now, bl_data, bl_expiry, setIP, expNow, expItem, expTimer,
                   currentSlot, h_data, updatedIPs, calcCutoff, calcUpdated,
                   hExpCutoff, clockTimer, calcTimer, hExpTimer>>
    /\ UNCHANGED <<writer, readers, asking, lockFrame>>

\* line 174: h.updatedIPsMutex.Lock()
processL174 ==
    /\ lpc["process"] = "l174"
    /\ Lock("process", "updatedIPsMutex", "l175")
    /\ UNCHANGED <<dataVars, lockFrame>>

\* lines 175-176: h.updatedIPs[ipstr] = true; h.updatedIPsMutex.Unlock()
processL175 ==
    /\ lpc["process"] = "l175"
    /\ updatedIPs' = updatedIPs \cup {procReq.IP}
    /\ Unlock("process", "updatedIPsMutex")
    /\ Goto("process", "l178")
    /\ UNCHANGED <<now, bl_data, bl_expiry, setIP, expNow, expItem, expTimer,
                   currentSlot, h_data, procReq, calcCutoff, calcUpdated,
                   hExpCutoff, clockTimer, calcTimer, hExpTimer, nReq>>
    /\ UNCHANGED lockFrame

\* line 178: h.mutex.Lock()
processL178 ==
    /\ lpc["process"] = "l178"
    /\ Lock("process", "mutex", "l185")
    /\ UNCHANGED <<dataVars, lockFrame>>

\* lines 180-201: the series is found or made, h.currentSlot is read (lines
\* 185 and 187) and the request is counted
processL185 ==
    /\ lpc["process"] = "l185"
    /\ h_data' = MapPut(h_data, procReq.IP,
                        Ingest(Lookup(h_data, procReq.IP), currentSlot, procReq.URL))
    /\ Goto("process", "l202")
    /\ UNCHANGED <<now, bl_data, bl_expiry, setIP, expNow, expItem, expTimer,
                   currentSlot, updatedIPs, procReq, calcCutoff, calcUpdated,
                   hExpCutoff, clockTimer, calcTimer, hExpTimer, nReq>>
    /\ UNCHANGED <<writer, readers, asking, lockFrame>>

\* line 202: h.mutex.Unlock(), and back to the select
processL202 ==
    /\ lpc["process"] = "l202"
    /\ Unlock("process", "mutex")
    /\ procReq' = NoReq
    /\ Goto("process", "l169")
    /\ UNCHANGED <<now, bl_data, bl_expiry, setIP, expNow, expItem, expTimer,
                   currentSlot, h_data, updatedIPs, calcCutoff, calcUpdated,
                   hExpCutoff, clockTimer, calcTimer, hExpTimer, nReq>>
    /\ UNCHANGED lockFrame

\* ---- calculate, history.go lines 239-297 ----
\* lines 244-245: the timer fires; cutoff := time.Now().Add(-Window)
calculateL244 ==
    /\ lpc["calculate"] = "l244"
    /\ now >= calcTimer
    /\ calcCutoff' = now - Window
    /\ Goto("calculate", "l248")
    /\ UNCHANGED <<now, bl_data, bl_expiry, setIP, expNow, expItem, expTimer,
                   currentSlot, h_data, updatedIPs, procReq, calcUpdated,
                   hExpCutoff, clockTimer, calcTimer, hExpTimer, nReq>>
    /\ UNCHANGED <<writer, readers, asking, lockFrame>>

\* line 248: h.updatedIPsMutex.Lock()
calculateL248 ==
    /\ lpc["calculate"] = "l248"
    /\ Lock("calculate", "updatedIPsMutex", "l249")
    /\ UNCHANGED <<dataVars, lockFrame>>

\* lines 249-251: the touched set is taken and reset; Unlock
calculateL249 ==
    /\ lpc["calculate"] = "l249"
    /\ calcUpdated' = updatedIPs
    /\ updatedIPs' = Drained(updatedIPs)
    /\ Unlock("calculate", "updatedIPsMutex")
    /\ Goto("calculate", "l254")
    /\ UNCHANGED <<now, bl_data, bl_expiry, setIP, expNow, expItem, expTimer,
                   currentSlot, h_data, procReq, calcCutoff, hExpCutoff,
                   clockTimer, calcTimer, hExpTimer, nReq>>
    /\ UNCHANGED lockFrame

\* line 254: h.mutex.Lock()
calculateL254 ==
    /\ lpc["calculate"] = "l254"
    /\ Lock("calculate", "mutex", "l255")
    /\ UNCHANGED <<dataVars, lockFrame>>

\* lines 255-290: one iteration of the loop; when the rule holds the body
\* calls h.blacklist.Set (line 290) with h.mutex held
calculateL255(ip) ==
    /\ lpc["calculate"] = "l255"
    /\ ip \in RangeOver(calcUpdated)
    /\ calcUpdated' = calcUpdated \ {ip}
    /\ IF ip \notin DOMAIN h_data
       THEN UNCHANGED <<h_data, setIP, lpc>>
       ELSE LET kept == ExpireOld(h_data[ip], calcCutoff)
                sums == Totals(kept)
            IN  /\ h_data' = IF Len(kept) <= 0 THEN MapRemove(h_data, ip)
                             ELSE [h_data EXCEPT ![ip] = kept]
                /\ IF Blacklistable(sums[1], sums[2])
                   THEN /\ setIP' = [setIP EXCEPT ![CalcCaller] = ip]
                        /\ Goto("calculate", "l52")
                   ELSE UNCHANGED <<setIP, lpc>>
    /\ UNCHANGED <<now, bl_data, bl_expiry, expNow, expItem, expTimer,
                   currentSlot, updatedIPs, procReq, calcCutoff, hExpCutoff,
                   clockTimer, calcTimer, hExpTimer, nReq>>
    /\ UNCHANGED <<writer, readers, asking, lockFrame>>

\* line 293: h.mutex.Unlock() after the loop, and back to the select
calculateL293 ==
    /\ lpc["calculate"] = "l255"
    /\ calcUpdated = {}
    /\ Unlock("calculate", "mutex")
    /\ calcCutoff' = 0
    /\ calcTimer' = now + Interval
    /\ Goto("calculate", "l244")
    /\ UNCHANGED <<now, bl_data, bl_expiry, setIP, expNow, expItem, expTimer,
                   currentSlot, h_data, updatedIPs, procReq, calcUpdated,
                   hExpCutoff, clockTimer, hExpTimer, nReq>>
    /\ UNCHANGED lockFrame

\* ---- Blacklist.Set, part_002 lines 49-69, called by calculate ----
\* line 52: bl.dataMutex.RLock()
SetL52 ==
    /\ lpc["calculate"] = "l52"
    /\ RLock("calculate", "dataMutex", "l53")
    /\ UNCHANGED <<dataVars, lockFrame>>

\* lines 53-57: the lookup, RUnlock, and the return when the key is found
SetL53 ==
    /\ lpc["calculate"] = "l53"
    /\ RUnlock("calculate", "dataMutex")
    /\ IF SetFound(setIP[CalcCaller])
       THEN /\ Goto("calculate", "l255")
            /\ setIP' = [setIP EXCEPT ![CalcCaller] = NoIP]
       ELSE /\ Goto("calculate", "l59")
            /\ UNCHANGED setIP
    /\ UNCHANGED <<now, bl_data, bl_expiry, expNow, expItem, expTimer,
                   currentSlot, h_data, updatedIPs, procReq, calcCutoff,
                   calcUpdated, hExpCutoff, clockTimer, calcTimer, hExpTimer,
                   nReq>>
    /\ UNCHANGED lockFrame

\* line 59: bl.dataMutex.Lock()
SetL59 ==
    /\ lpc["calculate"] = "l59"
    /\ Lock("calculate", "dataMutex", "l60")
    /\ UNCHANGED <<dataVars, lockFrame>>

\* lines 60-61: bl.data.Put(ipstr, true); Unlock
SetL60 ==
    /\ lpc["calculate"] = "l60"
    /\ bl_data' = bl_data \cup {setIP[CalcCaller]}
    /\ Unlock("calculate", "dataMutex")
    /\ Goto("calculate", "l63")
    /\ UNCHANGED <<now, bl_expiry, setIP, expNow, expItem, expTimer,
                   currentSlot, h_data, updatedIPs, procReq, calcCutoff,
                   calcUpdated, hExpCutoff, clockTimer, calcTimer, hExpTimer,
                   nReq>>
    /\ UNCHANGED lockFrame

\* line 63: bl.expiryMutex.Lock()
SetL63 ==
    /\ lpc["calculate"] = "l63"
    /\ Lock("calculate", "expiryMutex", "l64")
    /\ UNCHANGED <<dataVars, lockFrame>>

\* lines 64-68: bl.expiry.Add(...); Unlock; Set returns into the loop
SetL64 ==
    /\ lpc["calculate"] = "l64"
    /\ bl_expiry' = Append(bl_expiry, blacklistIP(setIP[CalcCaller], SetExpires))
    /\ setIP' = [setIP EXCEPT ![CalcCaller] = NoIP]
    /\ Unlock("calculate", "expiryMutex")
    /\ Goto("calculate", "l255")
    /\ UNCHANGED <<now, bl_data, expNow, expItem, expTimer, currentSlot, h_data,
                   updatedIPs, procReq, calcCutoff, calcUpdated, hExpCutoff,
                   clockTimer, calcTimer, hExpTimer, nReq>>
    /\ UNCHANGED lockFrame

\* ---- IPHistory.expire, history.go lines 207-237 ----
\* line 214: the timer fires
expireL214 ==
    /\ lpc["expire"] = "l214"
    /\ now >= hExpTimer
    /\ Goto("expire", "l215")
    /\ UNCHANGED <<writer, readers, asking, dataVars, lockFrame>>

\* line 215: h.mutex.Lock()
expireL215 ==
    /\ lpc["expire"] = "l215"
    /\ Lock("expire", "mutex", "l216")
    /\ UNCHANGED <<dataVars, lockFrame>>

\* lines 216-233: every list is trimmed with the cutoff of line 209
expireL216 ==
    /\ lpc["expire"] = "l216"
    /\ LET kept == [ip \in DOMAIN h_data |-> ExpireOld(h_data[ip], hExpCutoff)]
       IN  h_data' = [ip \in {x \in DOMAIN h_data : Len(kept[x]) > 0} |-> kept[ip]]
    /\ Goto("expire", "l234")
    /\ UNCHANGED <<now, bl_data, bl_expiry, setIP, expNow, expItem, expTimer,
                   currentSlot, updatedIPs, procReq, calcCutoff, calcUpdated,
                   hExpCutoff, clockTimer, calcTimer, hExpTimer, nReq>>
    /\ UNCHANGED <<writer, readers, asking, lockFrame>>

\* line 234: h.mutex.Unlock(); line 209: the next cutoff; the select
expireL234 ==
    /\ lpc["expire"] = "l234"
    /\ Unlock("expire", "mutex")
    /\ hExpCutoff' = now - Window
    /\ hExpTimer' = now + ExpireInterval
    /\ Goto("expire", "l214")
    /\ UNCHANGED <<now, bl_data, bl_expiry, setIP, expNow, expItem, expTimer,
                   currentSlot, h_data, updatedIPs, procReq, calcCutoff,
                   calcUpdated, clockTimer, calcTimer, nReq>>
    /\ UNCHANGED lockFrame

\* ---- Blacklist.expireLoop and expire, part_002 lines 86-124 ----
\* line 91: the timer fires; line 98: now := time.Now()
expireLoopL91 ==
    /\ lpc["expireLoop"] = "l91"
    /\ now >= expTimer
    /\ expNow' = now
    /\ Goto("expireLoop", "l101")
    /\ UNCHANGED <<now, bl_data, bl_expiry, setIP, expItem, expTimer,
                   currentSlot, h_data, updatedIPs, procReq, calcCutoff,
                   calcUpdated, hExpCutoff, clockTimer, calcTimer, hExpTimer,
                   nReq>>
    /\ UNCHANGED <<writer, readers, asking, lockFrame>>

\* line 101: bl.expiryMutex.RLock()
BlacklistExpireL101 ==
    /\ lpc["expireLoop"] = "l101"
    /\ RLock("expireLoop", "expiryMutex", "l102")
    /\ UNCHANGED <<dataVars, lockFrame>>

\* lines 102-110 and 120-122: the head is read, RUnlock; an empty list or a
\* head that has not expired ends the sweep
BlacklistExpireL102 ==
    /\ lpc["expireLoop"] = "l102"
    /\ RUnlock("expireLoop", "expiryMutex")
    /\ IF bl_expiry # <<>> /\ Expired(Head(bl_expiry), expNow)
       THEN /\ expItem' = Head(bl_expiry)
            /\ Goto("expireLoop", "l112")
            /\ UNCHANGED <<expNow, expTimer>>
       ELSE /\ Goto("expireLoop", "l91")
            /\ expTimer' = now + ExpireInterval
            /\ expNow' = 0
            /\ UNCHANGED expItem
    /\ UNCHANGED <<now, bl_data, bl_expiry, setIP, currentSlot, h_data,
                   updatedIPs, procReq, calcCutoff, calcUpdated, hExpCutoff,
                   clockTimer, calcTimer, hExpTimer, nReq>>
    /\ UNCHANGED lockFrame

\* line 112: bl.expiryMutex.Lock()
BlacklistExpireL112 ==
    /\ lpc["expireLoop"] = "l112"
    /\ Lock("expireLoop", "expiryMutex", "l113")
    /\ UNCHANGED <<dataVars, lockFrame>>

\* lines 113-114: bl.expiry.Remove(0); Unlock
BlacklistExpireL113 ==
    /\ lpc["expireLoop"] = "l113"
    /\ bl_expiry' = IF bl_expiry = <<>> THEN bl_expiry ELSE Tail(bl_expiry)
    /\ Unlock("expireLoop", "expiryMutex")
    /\ Goto("expireLoop", "l117")
    /\ UNCHANGED <<now, bl_data, setIP, expNow, expItem, expTimer, currentSlot,
                   h_data, updatedIPs, procReq, calcCutoff, calcUpdated,
                   hExpCutoff, clockTimer, calcTimer, hExpTimer, nReq>>
    /\ UNCHANGED lockFrame

\* line 117: bl.dataMutex.Lock()
BlacklistExpireL117 ==
    /\ lpc["expireLoop"] = "l117"
    /\ Lock("expireLoop", "dataMutex", "l118")
    /\ UNCHANGED <<dataVars, lockFrame>>

\* lines 118-119: bl.data.Remove(blip.IP); Unlock; the next iteration
BlacklistExpireL118 ==
    /\ lpc["expireLoop"] = "l118"
    /\ bl_data' = bl_data \ {expItem.IP}
    /\ expItem' = blacklistIP(NoIP, 0)
    /\ Unlock("expireLoop", "dataMutex")
    /\ Goto("expireLoop", "l101")
    /\ UNCHANGED <<now, bl_expiry, setIP, expNow, expTimer, currentSlot, h_data,
                   updatedIPs, procReq, calcCutoff, calcUpdated, hExpCutoff,
                   clockTimer, calcTimer, hExpTimer, nReq>>
    /\ UNCHANGED lockFrame

\* ---- IPHistory.IsBlacklisted, history.go lines 149-155, with ----
\* ---- Blacklist.IsBlacklisted, part_002 lines 78-84           ----
\* a foreground goroutine calls h.IsBlacklisted(ip)
IsBlacklistedL150(c) ==
    /\ lpc[c] = "idle"
    /\ Goto(c, "l151")
    /\ UNCHANGED <<writer, readers, asking, dataVars, lockFrame>>

\* history.go line 151: h.blmutex.RLock()
IsBlacklistedL151(c) ==
    /\ lpc[c] = "l151"
    /\ RLock(c, "blmutex", "l79")
    /\ UNCHANGED <<dataVars, lockFrame>>

\* part_002 line 79: bl.dataMutex.Lock(), with h.blmutex read-locked
IsBlacklistedL79(c) ==
    /\ lpc[c] = "l79"
    /\ Lock(c, "dataMutex", "l82")
    /\ UNCHANGED <<dataVars, lockFrame>>

\* part_002 lines 80-83: the lookup and the deferred Unlock
IsBlacklistedL82(c) ==
    /\ lpc[c] = "l82"
    /\ Unlock(c, "dataMutex")
    /\ Goto(c, "l155")
    /\ UNCHANGED <<dataVars, lockFrame>>

\* history.go lines 152-154: the deferred h.blmutex.RUnlock()
IsBlacklistedL155(c) ==
    /\ lpc[c] = "l155"
    /\ RUnlock(c, "blmutex")
    /\ Goto(c, "idle")
    /\ UNCHANGED <<dataVars, lockFrame>>

\* every goroutine waits at its select and no call is in progress
LocksIdle ==
    /\ lpc["setTimestamp"] = "l112" /\ now < clockTimer
    /\ lpc["process"] = "l169"
    /\ lpc["calculate"] = "l244" /\ now < calcTimer
    /\ lpc["expire"] = "l214" /\ now < hExpTimer
    /\ lpc["expireLoop"] = "l91" /\ now < expTimer
    /\ \A c \in Callers : lpc[c] = "idle"

\* the wall clock advances while every goroutine waits
TickLocks ==
    /\ now < LockMaxTime
    /\ LocksIdle
    /\ now' = now + 1
    /\ UNCHANGED <<bl_data, bl_expiry, setIP, expNow, expItem, expTimer,
                   currentSlot, h_data, updatedIPs, procReq, calcCutoff,
                   calcUpdated, hExpCutoff, clockTimer, calcTimer, hExpTimer,
                   nReq>>
    /\ UNCHANGED <<lockVars, lockFrame>>

\* the steps of the five goroutines and of the foreground callers
LockSteps ==
    \/ setTimestampLock
    \/ setTimestampWrite
    \/ setTimestampUnlock
    \/ setTimestampL112
    \/ processL174
    \/ processL175
    \/ processL178
    \/ processL185
    \/ processL202
    \/ calculateL244
    \/ calculateL248
    \/ calculateL249
    \/ calculateL254
    \/ \E ip \in IPs : calculateL255(ip)
    \/ calculateL293
    \/ SetL52
    \/ SetL53
    \/ SetL59
    \/ SetL60
    \/ SetL63
    \/ SetL64
    \/ expireL214
    \/ expireL215
    \/ expireL216
    \/ expireL234
    \/ expireLoopL91
    \/ BlacklistExpireL101
    \/ BlacklistExpireL102
    \/ BlacklistExpireL112
    \/ BlacklistExpireL113
    \/ BlacklistExpireL117
    \/ BlacklistExpireL118
    \/ \E c \in Callers : IsBlacklistedL151(c)
    \/ \E c \in Callers : IsBlacklistedL79(c)
    \/ \E c \in Callers : IsBlacklistedL82(c)
    \/ \E c \in Callers : IsBlacklistedL155(c)

NextLocks ==
    \/ LockSteps
    \/ \E ip \in LockIPs, url \in LockURLs : processL169(ip, url)
    \/ \E c \in Callers : IsBlacklistedL150(c)
    \/ TickLocks

SpecLocks == Init /\ [][NextLocks]_vars

(***************************************************************************)
(* Claims about the locks, under SpecLocks.                                *)
(***************************************************************************)
\* setTimestamp is at an assignment to h.currentSlot (lines 104 and 114)
WritingSlot == lpc["setTimestamp"] \in {"l104", "l114"}
\* process is at its reads of h.currentSlot (lines 185 and 187)
ReadingSlot == lpc["process"] = "l185"

\* C22: the reads of the current slot by process exclude the clock's write
\* of it: in no state is setTimestamp at its write of h.currentSlot, inside
\* h.tsmutex, while process is at its read of h.currentSlot.
C22_SlotReadExcludesWrite == ~(WritingSlot /\ ReadingSlot)

(***************************************************************************)
(* The time-slot clock beside ingestion, started at any instant of a slot. *)
(***************************************************************************)
\* NewIPHistory is called at some instant of the first slot
InitClock ==
    /\ now \in 0..(TimeSlot - 1)
    /\ InitBL
    /\ InitH
    /\ InitMain
    /\ InitLocks
    /\ ignorePrivateIPs = TRUE

\* the wall clock advances while setTimestamp and process wait
TickClock ==
    /\ now < MaxTime
    /\ procReq = NoReq
    /\ now < clockTimer
    /\ now' = now + 1
    /\ UNCHANGED <<blVars, hVars, tickState, mainVars, lockVars>>

NextClock ==
    \/ setTimestamp
    \/ \E ip \in IPs, url \in URLs : ProcReceive(ip, url)
    \/ ProcUpdate
    \/ TickClock

SpecClock == InitClock /\ [][NextClock]_vars

\* C23: after the recomputation at start, every recomputation of the current
\* slot falls on a slot boundary (the next one is due at a multiple of
\* TimeSlot), and once the write due at an instant has been made the
\* published slot is the wall-clock time truncated to TimeSlot.
C23_ClockAlignedToSlots ==
    (currentSlot # ZeroTime /\ now < clockTimer)
        => /\ clockTimer = Truncate(clockTimer, TimeSlot)
           /\ currentSlot = Truncate(now, TimeSlot)

\* the locks that goroutine t is inside of
Held(t) == {m \in Locks : writer[m] = t \/ t \in readers[m]}

\* C24: no goroutine takes a lock of one component while it holds a lock of
\* the other: none is ever inside a lock of the Blacklist (dataMutex,
\* expiryMutex) and a lock of the aggregator (mutex, blmutex, tsmutex,
\* updatedIPsMutex) at once.
C24_NoCrossComponentLocking ==
    \A t \in Goroutines \cup Callers :
        Held(t) \cap AggregatorLocks = {} \/ Held(t) \cap BlacklistLocks = {}

(***************************************************************************)
(* Claims about the ratio clause of the block rule, under Spec.            *)
(***************************************************************************)
\* the thresholds MaxRatio = num/MaxRatioDen that are below 1
RatiosBelowOne == {num \in Ratios : num < MaxRatioDen}

Wants(t) ==
    CASE t = "setTimestamp" /\ lpc[t] \in {"l103", "l113"} -> <<"tsmutex", "W">>
      [] t = "process" /\ lpc[t] = "l174" -> <<"updatedIPsMutex", "W">>
      [] t = "process" /\ lpc[t] = "l178" -> <<"mutex", "W">>
      [] t = "calculate" /\ lpc[t] = "l248" -> <<"updatedIPsMutex", "W">>
      [] t = "calculate" /\ lpc[t] = "l254" -> <<"mutex", "W">>
      [] t = "calculate" /\ lpc[t] = "l52" -> <<"dataMutex", "R">>
      [] t = "calculate" /\ lpc[t] = "l59" -> <<"dataMutex", "W">>
      [] t = "calculate" /\ lpc[t] = "l63" -> <<"expiryMutex", "W">>
      [] t = "expire" /\ lpc[t] = "l215" -> <<"mutex", "W">>
      [] t = "expireLoop" /\ lpc[t] = "l101" -> <<"expiryMutex", "R">>
      [] t = "expireLoop" /\ lpc[t] = "l112" -> <<"expiryMutex", "W">>
      [] t = "expireLoop" /\ lpc[t] = "l117" -> <<"dataMutex", "W">>
      [] t \in Callers /\ lpc[t] = "l151" -> <<"blmutex", "R">>
      [] t \in Callers /\ lpc[t] = "l79" -> <<"dataMutex", "W">>
      [] OTHER -> <<"none", "-">>

\* the goroutines inside lock m
Holders(m) == (IF writer[m] = "none" THEN {} ELSE {writer[m]}) \cup readers[m]

\* the goroutines that t's lock request waits for
BlockedBy(t) ==
    LET m == Wants(t)[1]
        announced == IF asking[m] \in {"none", t} THEN {} ELSE {asking[m]}
    IN  IF m = "none" THEN {}
        ELSE IF Wants(t)[2] = "W" THEN Holders(m) \cup announced
        ELSE (IF writer[m] = "none" THEN {} ELSE {writer[m]}) \cup announced

\* S with every goroutine that one of S waits for, directly or through others
RECURSIVE WaitClosure(_)
WaitClosure(S) ==
    LET next == S \cup UNION {BlockedBy(u) : u \in S}
    IN  IF next = S THEN S ELSE WaitClosure(next)

\* the goroutines that t waits for, directly or through others
WaitsOn(t) == IF BlockedBy(t) = {} THEN {} ELSE WaitClosure(BlockedBy(t))

\* the goroutine is parked: at the select of its loop, or not in a call
Parked(t) ==
    CASE t = "setTimestamp" -> lpc[t] = "l112"
      [] t = "process" -> lpc[t] = "l169"
      [] t = "calculate" -> lpc[t] = "l244"
      [] t = "expire" -> lpc[t] = "l214"
      [] t = "expireLoop" -> lpc[t] = "l91"
      [] OTHER -> lpc[t] = "idle"

\* C26: the locks never deadlock.  No goroutine waits, directly or through
\* a chain of lock requests, for a lock that is held by a goroutine waiting
\* for it in turn; and a goroutine is never parked at its select (or outside
\* a call) while it is inside a lock or has announced a Lock, so every chain
\* of waiting goroutines ends at one that runs and releases its lock.
C26_NoLockDeadlock ==
    /\ \A t \in Goroutines \cup Callers :
          LET chain == WaitsOn(t)
          IN  /\ t \notin chain
              /\ \A u \in chain : BlockedBy(u) = {} => ~Parked(u)
    /\ \A m \in Locks :
          /\ writer[m] # "none" => ~Parked(writer[m])
          /\ \A u \in readers[m] : ~Parked(u)
          /\ asking[m] # "none" => ~Parked(asking[m])

\* calculate waits inside h.mutex for dataMutex, which a foreground caller
\* holds, while the aggregator's sweep waits for h.mutex
C26_Witness ==
    /\ "calculate" \in BlockedBy("expire")
    /\ \E c \in Callers : c \in BlockedBy("calculate")
    /\ Held("calculate") = {"mutex"}
====
